---------------------------- MODULE Spec2Model ----------------------------
(***************************************************************************)
(* Task allocation engine of mytaskpoint-backend: the task store, the      *)
(* optimized and the legacy allocation runs, the admin and worker task     *)
(* operations that race with them, and the cache circuit breaker.          *)
(*                                                                         *)
(* Distances are integers in metres on a line (the great-circle distance   *)
(* itself is trigonometric and is an input here); scores are the source's  *)
(* scores multiplied by ScoreScale so that they stay integers.             *)
(***************************************************************************)
EXTENDS Integers, Sequences, FiniteSets, TLC

\* ------------------------------------------------------------------ bounds
NumTasks == 2
MaxClientOps == 3
MaxCalls == 7
MaxInflight == 2
MaxTicks == 3
MaxCacheOps == 5
MaxVersion == 3
MaxSyncCalls == 2
MaxMonitorOps == 4

\* ------------------------------------------------------- program constants
MAX_TASKS_PER_WORKER == 50
MAX_ALLOCATION_RADIUS == 10
DefaultBatchSize == 100
failureThreshold == 5
recoveryTimeout == 60000
MAX_METRICS == 1000

\* ------------------------------------------------------------ the universe
Tasks == 1..NumTasks
WorkerList == <<"w1", "w2">>
Workers == {WorkerList[i] : i \in 1..Len(WorkerList)}
NoWorker == "none"
Runs == {"r1", "r2"}
Clients == {"c1", "c2"}
TaskStatus == {"unassigned", "assigned", "accepted", "completed", "rejected"}

\* metres per kilometre, and the factor that makes calculateWorkerScore integral
MetresPerKm == 1000
ScoreScale == 10000

\* Positions a task can be imported with; 0 is the falsy coordinate that
\* `!task.lat || !task.lon` treats as missing.
TaskPositions == {0, 1000, 20000}
WorkerPos(w) == IF w = "w1" THEN 2000 ELSE 6000
InitialLoads == {MAX_TASKS_PER_WORKER - 1, MAX_TASKS_PER_WORKER}
BatchSizes == {1, DefaultBatchSize}

VARIABLES
  taskStatus,     \* Task.status
  taskWorker,     \* Task.assignedUserId
  taskPos,        \* Task.lat / Task.lon (0: missing)
  baseLoad,       \* per worker: active tasks outside the modelled batch
  spatialIndex,   \* SpatialIndexService.spatialIndex (one shared instance)
  run,            \* per allocation run: its position and its locals
  rejections,     \* TaskRejection rows, as <<task, worker>>
  client,         \* per client: the admin / worker request in flight
  clientOps,      \* number of admin / worker requests started
  circuitBreaker, \* RedisCacheService.circuitBreaker
  now,            \* Date.now(), in milliseconds
  calls,          \* the wrapped cache calls: in flight, begun, the last event
  cache,          \* the cache store's keys, and the calls of the last method
  sync,           \* per run: its position in the versioned snapshot publish
  grid,           \* SpatialIndexService on the latitude/longitude grid
  monitor,        \* PerformanceMonitorService.metrics
  workerCache     \* the active workers with coordinates getWorkers() finds

vars == <<taskStatus, taskWorker, taskPos, baseLoad, spatialIndex, run,
          rejections, client, clientOps, circuitBreaker, now, calls, cache,
          sync, grid, monitor, workerCache>>
storeVars == <<taskStatus, taskWorker, rejections>>
cbVars == <<circuitBreaker, now, calls>>
cacheVars == <<cache, sync>>
auxVars == <<grid, monitor, workerCache>>

\* ----------------------------------------------------------------- helpers
Abs(x) == IF x < 0 THEN -x ELSE x
Max(a, b) == IF a > b THEN a ELSE b
Range(s) == {s[i] : i \in 1..Len(s)}

RECURSIVE SeqOfSet(_, _)
\* the tasks of S in createdAt (= id) order, at most `take` of them
SeqOfSet(S, take) ==
  IF S = {} \/ take = 0 THEN <<>>
  ELSE LET m == CHOOSE x \in S : \A y \in S : x <= y
       IN <<m>> \o SeqOfSet(S \ {m}, take - 1)

\* haversineDistance(task, worker), in metres
haversineDistance(t, w) == Abs(taskPos[t] - WorkerPos(w))

\* prisma.task.count / groupBy over status in (assigned, accepted)
ActiveCount(w) ==
  baseLoad[w]
  + Cardinality({t \in Tasks : taskWorker[t] = w
                               /\ taskStatus[t] \in {"assigned", "accepted"}})


\* ------------------------------------------------- SpatialIndexService
\* buildSpatialIndex(workers): the workers with coordinates, in list order
buildSpatialIndex(workers) == SelectSeq(workers, LAMBDA w : WorkerPos(w) # 0)

\* a lookup that returns every indexed worker, whatever the radius
findNearbyWorkersAnywhere(t, radiusKm) == spatialIndex

\* findNearbyWorkers(task, radiusKm): the indexed workers within the radius
findNearbyWorkers(t, radiusKm) ==
  SelectSeq(spatialIndex,
            LAMBDA w : haversineDistance(t, w) <= radiusKm * MetresPerKm)

\* ------------------------------------------------- TaskAllocationService
\* CacheService.getWorkers(): the active workers with coordinates
getWorkers == workerCache

\* getWorkerTaskCountsBatch: the store's counts, or all zeros when the
\* groupBy query fails (the catch at lines 105-111)
getWorkerTaskCountsBatch(workerIds, ok) ==
  [w \in Workers |-> IF ok /\ w \in workerIds THEN ActiveCount(w) ELSE 0]

\* calculateWorkerScore * ScoreScale, distance in metres:
\*   max(0, 100 - km/10) + (1 - currentTasks/maxTasks) * 50
calculateWorkerScore(distance, currentTasks, maxTasks) ==
  Max(0, 100 * ScoreScale - distance)
  + ((maxTasks - currentTasks) * 50 * ScoreScale) \div maxTasks

RECURSIVE selectLoopLastBest(_, _, _, _, _)
\* a selection loop that lets a later candidate with an equal score win
selectLoopLastBest(nearby, counts, t, i, best) ==
  IF i > Len(nearby) THEN best
  ELSE LET worker == nearby[i]
           currentTasks == counts[worker]
           distance == haversineDistance(t, worker)
           score == calculateWorkerScore(distance, currentTasks,
                                         MAX_TASKS_PER_WORKER)
       IN IF currentTasks >= MAX_TASKS_PER_WORKER
          THEN selectLoopLastBest(nearby, counts, t, i + 1, best)
          ELSE IF score >= best.score
               THEN selectLoopLastBest(nearby, counts, t, i + 1,
                      [worker |-> worker, score |-> score,
                       distance |-> distance])
               ELSE selectLoopLastBest(nearby, counts, t, i + 1, best)

RECURSIVE selectLoop(_, _, _, _, _)
\* the for loop of selectBestWorkerOptimized from candidate i on;
\* best = [worker, score, distance]
selectLoop(nearby, counts, t, i, best) ==
  IF i > Len(nearby) THEN best
  ELSE LET worker == nearby[i]
           currentTasks == counts[worker]
           distance == haversineDistance(t, worker)
           score == calculateWorkerScore(distance, currentTasks,
                                         MAX_TASKS_PER_WORKER)
       IN IF currentTasks >= MAX_TASKS_PER_WORKER
          THEN selectLoop(nearby, counts, t, i + 1, best)
          ELSE IF score > best.score
               THEN selectLoop(nearby, counts, t, i + 1,
                      [worker |-> worker, score |-> score,
                       distance |-> distance])
               ELSE selectLoop(nearby, counts, t, i + 1, best)

\* selectBestWorkerOptimized: [worker, distance], worker = NoWorker for null
selectBestWorkerOptimized(nearby, counts, t) ==
  selectLoop(nearby, counts, t, 1,
             [worker |-> NoWorker, score |-> -1, distance |-> 0])

\* a proposal loop that gives up the batch at the first task it cannot place
proposeLoopStopAtMiss(tasks, counts, i, acc) ==
  IF i > Len(tasks) THEN acc
  ELSE LET t == tasks[i]
           nearby == findNearbyWorkers(t, MAX_ALLOCATION_RADIUS)
           best == selectBestWorkerOptimized(nearby, counts, t)
       IN IF taskPos[t] = 0 \/ Len(nearby) = 0 \/ best.worker = NoWorker
          THEN [acc EXCEPT !.failed = @ + 1]
          ELSE [acc EXCEPT !.allocations =
                  Append(@, [taskId |-> t, workerId |-> best.worker,
                             distance |-> best.distance])]

RECURSIVE proposeLoop(_, _, _, _)
\* the per-task loop of allocateTasksOptimized (lines 391-431) from task i on;
\* acc = [allocations, failed]
proposeLoop(tasks, counts, i, acc) ==
  IF i > Len(tasks) THEN acc
  ELSE LET t == tasks[i]
           nearby == findNearbyWorkers(t, MAX_ALLOCATION_RADIUS)
           best == selectBestWorkerOptimized(nearby, counts, t)
       IN IF taskPos[t] = 0 \/ Len(nearby) = 0 \/ best.worker = NoWorker
          THEN proposeLoop(tasks, counts, i + 1,
                 [acc EXCEPT !.failed = @ + 1])
          ELSE proposeLoop(tasks, counts, i + 1,
                 [acc EXCEPT !.allocations =
                    Append(@, [taskId |-> t, workerId |-> best.worker,
                               distance |-> best.distance])])

\* a where clause on the id alone, as an unguarded update would have
updateManyWhereUnguarded(st, a) == TRUE

\* the where clause of the guarded updateMany (line 192)
updateManyWhere(st, a) == st[a.taskId] = "unassigned"

RECURSIVE bulkLoop(_, _, _)
\* the transaction body of bulkUpdateTaskAllocations from allocation i on;
\* db = [st, wk, successful]
bulkLoop(allocations, i, db) ==
  IF i > Len(allocations) THEN db
  ELSE LET a == allocations[i]
       IN IF updateManyWhere(db.st, a)
          THEN bulkLoop(allocations, i + 1,
                 [st |-> [db.st EXCEPT ![a.taskId] = "assigned"],
                  wk |-> [db.wk EXCEPT ![a.taskId] = a.workerId],
                  successful |-> Append(db.successful, a.taskId)])
          ELSE bulkLoop(allocations, i + 1, db)

bulkUpdateTaskAllocations(allocations) ==
  bulkLoop(allocations, 1,
           [st |-> taskStatus, wk |-> taskWorker, successful |-> <<>>])

RECURSIVE SumDistance(_)
SumDistance(allocations) ==
  IF allocations = <<>> THEN 0
  ELSE Head(allocations).distance + SumDistance(Tail(allocations))

\* calculateAverageDistance, in whole metres
calculateAverageDistance(allocations) ==
  IF Len(allocations) = 0 THEN 0
  ELSE SumDistance(allocations) \div Len(allocations)


\* --------------------------------------------- PerformanceMonitorService
\* metrics is kept as `base` oldest entries, all ended, followed by `tail`;
\* an entry of the tail is [id, ended], ended counting the endOperation
\* calls that found it (it has a duration once ended > 0)
\* startOperation: push an entry for a fresh operation id
startOperation(m, id) ==
  [m EXCEPT !.tail = Append(@, [id |-> id, ended |-> 0])]

\* endOperation: mark the entry if it is still there, then keep the last
\* MAX_METRICS entries if there are more
endOperation(m, id) ==
  LET marked == [i \in 1..Len(m.tail) |->
                   IF m.tail[i].id = id
                   THEN [m.tail[i] EXCEPT !.ended = @ + 1] ELSE m.tail[i]]
      over == m.base + Len(marked) - MAX_METRICS
  IN IF over <= 0 THEN [m EXCEPT !.tail = marked]
     ELSE [m EXCEPT !.base = Max(0, m.base - over),
                    !.tail = SubSeq(marked, 1 + Max(0, over - m.base),
                                    Len(marked))]

\* ---------------------------------------------------------- run records
IdleRun ==
  [pc |-> "idle", kind |-> "none", batchSize |-> 0, tasks |-> <<>>,
   workers |-> <<>>,
   counts |-> [w \in Workers |-> 0], allocations |-> <<>>,
   successful |-> <<>>, allocated |-> 0, failed |-> 0, affected |-> {},
   avgDistance |-> 0, workerLoad |-> [w \in Workers |-> 0],
   picked |-> {}, pending |-> {}, batchNo |-> 0,
   storeFailed |-> FALSE, countsFailed |-> FALSE, cacheFailed |-> FALSE]

\* an early return that reports no failed task
earlyReturnNoneFailed(me, tasks, workers) ==
  [me EXCEPT !.pc = "done", !.tasks = tasks, !.workers = workers]

\* the early return for no tasks or no workers (lines 343-353, 542-552):
\* allocated 0, allocationFailed tasks.length
earlyReturn(me, tasks, workers) ==
  [me EXCEPT !.pc = "done", !.tasks = tasks, !.workers = workers,
             !.failed = Len(tasks)]

\* the pending unassigned geocoded tasks, oldest first (findMany, orderBy
\* createdAt asc), at most `take` of them
findPendingTasks(take) ==
  SeqOfSet({t \in Tasks : taskStatus[t] = "unassigned"}, take)

\* ------------------------------------------- allocateTasksOptimized steps
\* lines 334-363: fetch tasks and workers, return early or build the index
OptStart(r, batchSize, ok) ==
  /\ run[r].pc = "idle"
  /\ LET tasks == findPendingTasks(batchSize)
         workers == getWorkers
         me == [IdleRun EXCEPT !.kind = "opt", !.batchSize = batchSize]
     IN IF ~ok
        THEN /\ run' = [run EXCEPT ![r] =
                  [me EXCEPT !.pc = "thrown", !.storeFailed = TRUE]]
             /\ UNCHANGED spatialIndex
        ELSE IF Len(tasks) = 0 \/ Len(workers) = 0
        THEN /\ run' = [run EXCEPT ![r] =
                  earlyReturn(me, tasks, workers)]
             /\ UNCHANGED spatialIndex
        ELSE /\ run' = [run EXCEPT ![r] =
                  [me EXCEPT !.pc = "publish", !.tasks = tasks,
                             !.workers = workers]]
             /\ spatialIndex' = buildSpatialIndex(workers)
  /\ monitor' = IF ok THEN startOperation(monitor, r)
                ELSE endOperation(startOperation(monitor, r), r)
  /\ UNCHANGED <<storeVars, cacheVars, grid, workerCache, taskPos, baseLoad,
                 client, clientOps, cbVars>>

\* lines 365-376: publish the snapshot to the cache; every failure is caught
\* inside AdvancedCacheService
OptPublish(r, cacheOk) ==
  /\ run[r].pc = "publish" /\ run[r].kind = "opt"
  /\ run' = [run EXCEPT ![r].pc = "propose",
                        ![r].cacheFailed = @ \/ ~cacheOk]
  /\ UNCHANGED <<storeVars, cacheVars, auxVars, taskPos, baseLoad, spatialIndex, client,
                 clientOps, cbVars>>

\* lines 365-376 with a cache store that never answers: the await of
\* cacheWorkersWithSpatialIndex (redisCache.set -> redis.setex, no
\* commandTimeout on the client, no timer around the await) never settles;
\* nothing counts a failure and the run has no further step
OptPublishHangs(r) ==
  /\ run[r].pc = "publish" /\ run[r].kind = "opt"
  /\ run' = [run EXCEPT ![r].pc = "awaitingCache"]
  /\ UNCHANGED <<storeVars, cacheVars, auxVars, taskPos, baseLoad, spatialIndex, client,
                 clientOps, cbVars>>

\* the list calculateAverageDistance is given (lines 467-471)
avgDistanceInput(successfulAllocations, allocations) ==
  IF Len(successfulAllocations) > 0 THEN successfulAllocations
  ELSE allocations

\* lines 378-431: the load counts, then the synchronous proposal loop
OptPropose(r, countsOk) ==
  /\ run[r].pc = "propose" /\ run[r].kind = "opt"
  /\ LET counts == getWorkerTaskCountsBatch(Range(run[r].workers), countsOk)
         acc == proposeLoop(run[r].tasks, counts, 1,
                            [allocations |-> <<>>, failed |-> 0])
     IN run' = [run EXCEPT ![r] =
          [@ EXCEPT !.counts = counts,
                    !.countsFailed = ~countsOk,
                    !.allocations = acc.allocations,
                    !.failed = acc.failed,
                    !.avgDistance = calculateAverageDistance(
                       avgDistanceInput(<<>>, acc.allocations)),
                    !.pc = IF Len(acc.allocations) > 0 THEN "commit"
                           ELSE "finish"]]
  /\ UNCHANGED <<storeVars, cacheVars, auxVars, taskPos, baseLoad, spatialIndex, client,
                 clientOps, cbVars>>

RECURSIVE incrementCounts(_, _)
\* lines 449-453: workerTaskCounts[a.workerId]++ for each allocation given
incrementCounts(counts, allocs) ==
  IF allocs = <<>> THEN counts
  ELSE incrementCounts(
         [counts EXCEPT ![Head(allocs).workerId] = @ + 1], Tail(allocs))

\* lines 433-454: the guarded transaction, then the reconciliation that
\* follows it without suspending
OptCommit(r, ok) ==
  /\ run[r].pc = "commit" /\ run[r].kind = "opt"
  /\ IF ~ok
     THEN /\ run' = [run EXCEPT ![r].pc = "thrown", ![r].storeFailed = TRUE]
          /\ UNCHANGED storeVars
     ELSE LET allocations == run[r].allocations
              db == bulkUpdateTaskAllocations(allocations)
              successfulAllocations ==
                SelectSeq(allocations,
                          LAMBDA a : a.taskId \in Range(db.successful))
          IN /\ taskStatus' = db.st
             /\ taskWorker' = db.wk
             /\ UNCHANGED rejections
             /\ run' = [run EXCEPT ![r] =
                  [@ EXCEPT
                     !.successful = db.successful,
                     !.allocated = Len(successfulAllocations),
                     !.failed = @ + Len(allocations)
                                  - Len(successfulAllocations),
                     !.counts = incrementCounts(@, successfulAllocations),
                     !.affected =
                       {successfulAllocations[i].workerId :
                          i \in 1..Len(successfulAllocations)},
                     !.avgDistance = calculateAverageDistance(
                        avgDistanceInput(successfulAllocations, allocations)),
                     !.pc = "finish"]]
  /\ monitor' = IF ok THEN monitor ELSE endOperation(monitor, r)
  /\ UNCHANGED <<cacheVars, grid, workerCache, taskPos, baseLoad,
                 spatialIndex, client, clientOps, cbVars>>

\* lines 456-513: invalidateWorkerCaches (its own try/catch) when a worker
\* was affected, cacheAllocationResults (caught inside), then the result
OptFinish(r, cacheOk) ==
  /\ run[r].pc = "finish" /\ run[r].kind = "opt"
  /\ run' = [run EXCEPT ![r].pc = "done",
                        ![r].cacheFailed = @ \/ ~cacheOk]
  /\ monitor' = endOperation(monitor, r)
  /\ UNCHANGED <<storeVars, cacheVars, grid, workerCache, taskPos, baseLoad,
                 spatialIndex, client, clientOps, cbVars>>


\* ---------------------------------------------------- allocateTasks steps
\* a count lookup that reports a full worker when the store call fails
getWorkerCurrentTaskCountFailClosed(w, ok) ==
  IF ok THEN ActiveCount(w) ELSE MAX_TASKS_PER_WORKER

\* getWorkerCurrentTaskCount: the store's count, 0 when the call fails
getWorkerCurrentTaskCount(w, ok) == IF ok THEN ActiveCount(w) ELSE 0

\* canWorkerAcceptTask (lines 73-76)
canWorkerAcceptTask(w, ok) ==
  getWorkerCurrentTaskCount(w, ok) < MAX_TASKS_PER_WORKER

RECURSIVE nearestLoop(_, _, _, _, _)
\* the worker loop of allocateTasks (lines 573-607) from worker i on;
\* best = [worker, dist]; fails = the workers whose count lookup fails
nearestLoop(workers, t, load, fails, i) ==
  IF i = 0 THEN [worker |-> NoWorker, dist |-> 0]
  ELSE LET best == nearestLoop(workers, t, load, fails, i - 1)
           worker == workers[i]
           dist == haversineDistance(t, worker)
           take == [worker |-> worker, dist |-> dist]
       IN IF taskPos[t] = 0 \/ WorkerPos(worker) = 0 THEN best
          ELSE IF dist > MAX_ALLOCATION_RADIUS * MetresPerKm THEN best
          ELSE IF getWorkerCurrentTaskCount(worker, worker \notin fails)
                    >= MAX_TASKS_PER_WORKER THEN best
          ELSE IF best.worker = NoWorker THEN take
          ELSE IF dist < best.dist THEN take
          ELSE IF Abs(dist - best.dist) < MetresPerKm \div 10
                  /\ load[worker] < load[best.worker] THEN take
          ELSE best

Min(a, b) == IF a < b THEN a ELSE b

\* a slice that holds only the first task of the batch
batchTasksFirstOnly(rec) ==
  {rec.tasks[i] : i \in {rec.batchNo * rec.batchSize + 1}
                         \cap (1..Len(rec.tasks))}

\* batch.slice(i, i + batchSize) of the batch the run is in
batchTasks(rec) ==
  {rec.tasks[i] : i \in (rec.batchNo * rec.batchSize + 1) ..
                        Min((rec.batchNo + 1) * rec.batchSize, Len(rec.tasks))}

\* the end of a batch: the next slice, or the code after the loop (line 633)
legacyAdvance(rec) ==
  IF ~(batchTasks(rec) \subseteq rec.picked /\ rec.pending = {}) THEN rec
  ELSE IF rec.pc = "thrown" THEN rec
  ELSE IF (rec.batchNo + 1) * rec.batchSize < Len(rec.tasks)
       THEN [rec EXCEPT !.batchNo = @ + 1]
  ELSE [rec EXCEPT !.pc = IF rec.affected = {} THEN "done" ELSE "finish"]

\* lines 535-559
LegacyStart(r, batchSize, ok) ==
  /\ run[r].pc = "idle"
  /\ LET tasks == findPendingTasks(NumTasks)
         workers == getWorkers
         me == [IdleRun EXCEPT !.kind = "legacy", !.batchSize = batchSize]
     IN run' = [run EXCEPT ![r] =
          IF ~ok THEN [me EXCEPT !.pc = "thrown", !.storeFailed = TRUE]
          ELSE IF Len(tasks) = 0 \/ Len(workers) = 0
          THEN earlyReturn(me, tasks, workers)
          ELSE [me EXCEPT !.pc = "batch", !.tasks = tasks,
                          !.workers = workers]]
  /\ UNCHANGED <<storeVars, cacheVars, auxVars, taskPos, baseLoad, spatialIndex, client,
                 clientOps, cbVars>>

\* lines 569-626 for one task of the batch, up to issuing its update
LegacyPick(r, t, fails) ==
  /\ run[r].kind = "legacy" /\ run[r].pc \in {"batch", "thrown"}
  /\ t \in batchTasks(run[r]) \ run[r].picked
  /\ LET rec == run[r]
         workers == rec.workers
         nearest == nearestLoop(workers, t, rec.workerLoad, fails,
                                Len(workers))
         nw == nearest.worker
     IN run' = [run EXCEPT ![r] = legacyAdvance(
          IF nw # NoWorker
          THEN [rec EXCEPT !.picked = @ \cup {t},
                           !.countsFailed = @ \/ fails # {},
                           !.workerLoad[nw] = @ + 1,
                           !.allocated = @ + 1,
                           !.affected = @ \cup {nw},
                           !.pending = @ \cup {<<t, nw>>}]
          ELSE [rec EXCEPT !.picked = @ \cup {t},
                           !.countsFailed = @ \/ fails # {},
                           !.failed = @ + 1])]
  /\ UNCHANGED <<storeVars, cacheVars, auxVars, taskPos, baseLoad, spatialIndex, client,
                 clientOps, cbVars>>

\* the where clause of prisma.task.update (line 615): the id alone
updateWhere(st, t) == TRUE

\* lines 614-621: the update of one task, resolved or rejected by the store
LegacyUpdate(r, t, ok) ==
  /\ run[r].kind = "legacy" /\ run[r].pc \in {"batch", "thrown"}
  /\ \E w \in Workers :
       /\ <<t, w>> \in run[r].pending
       /\ IF ok /\ updateWhere(taskStatus, t)
          THEN /\ taskStatus' = [taskStatus EXCEPT ![t] = "assigned"]
               /\ taskWorker' = [taskWorker EXCEPT ![t] = w]
               /\ run' = [run EXCEPT ![r] = legacyAdvance(
                    [@ EXCEPT !.pending = @ \ {<<t, w>>}])]
          ELSE /\ UNCHANGED <<taskStatus, taskWorker>>
               /\ run' = [run EXCEPT ![r] =
                    [@ EXCEPT !.pending = @ \ {<<t, w>>},
                              !.pc = "thrown", !.storeFailed = TRUE]]
  /\ UNCHANGED <<rejections, cacheVars, auxVars, taskPos, baseLoad, spatialIndex, client,
                 clientOps, cbVars>>

\* lines 633-688: invalidateWorkerTaskCache is awaited with no catch of its
\* own, so a cache failure reaches the catch at line 682
LegacyFinish(r, cacheOk) ==
  /\ run[r].kind = "legacy" /\ run[r].pc = "finish"
  /\ run' = [run EXCEPT ![r].pc = IF cacheOk THEN "done" ELSE "thrown",
                        ![r].cacheFailed = ~cacheOk]
  /\ UNCHANGED <<storeVars, cacheVars, auxVars, taskPos, baseLoad, spatialIndex, client,
                 clientOps, cbVars>>


\* ------------------------------------------- task-reallocation.config.ts
defaultTaskReallocationConfig ==
  [allowedStatuses |->
     [unassigned |-> TRUE, assigned |-> TRUE, accepted |-> TRUE,
      rejected |-> TRUE, completed |-> FALSE],
   defaultAllowReallocation |-> FALSE,
   errorMessages |->
     [unassigned |-> "Unassigned tasks cannot be reallocated",
      assigned |-> "Assigned tasks cannot be reallocated",
      accepted |-> "Accepted tasks cannot be reallocated",
      rejected |-> "Rejected tasks cannot be reallocated",
      completed |-> "Completed tasks cannot be reallocated"]]

canReallocateTask(status, config) ==
  IF status \in DOMAIN config.allowedStatuses
  THEN config.allowedStatuses[status]
  ELSE config.defaultAllowReallocation

getReallocationErrorMessage(status, config) ==
  IF status \in DOMAIN config.errorMessages
  THEN config.errorMessages[status]
  ELSE "Task reallocation is not allowed for this status"

\* ------------------------------- AdminTasksService / WorkerTasksService
AdminOps == {"manuallyAssignTask", "reallocateTask"}
WorkerOps == {"acceptTask", "rejectTask", "completeTask",
              "acceptRejectedTask"}

IdleClient ==
  [pc |-> "idle", op |-> "none", task |-> 0, worker |-> NoWorker,
   error |-> ""]

\* a request arrives: its findUnique has answered and its checks gave `error`
\* ("" to go on to the update)
ClientBegin(c, op, t, w, error) ==
  /\ client[c].pc = "idle"
  /\ clientOps < MaxClientOps
  /\ clientOps' = clientOps + 1
  /\ client' = [client EXCEPT ![c] =
       [pc |-> IF error = "" THEN "write" ELSE "idle",
        op |-> op, task |-> t, worker |-> w, error |-> error]]
  /\ UNCHANGED <<storeVars, cacheVars, auxVars, taskPos, baseLoad, spatialIndex, run, cbVars>>

\* prisma.task.update({ where: { id }, data }) of the request in flight
ClientUpdate(c, op, status, setWorker) ==
  /\ client[c].pc = "write" /\ client[c].op = op
  /\ LET t == client[c].task
     IN /\ taskStatus' = [taskStatus EXCEPT ![t] = status]
        /\ taskWorker' = IF setWorker
                         THEN [taskWorker EXCEPT ![t] = client[c].worker]
                         ELSE taskWorker
  /\ client' = [client EXCEPT ![c].pc = "idle"]
  /\ UNCHANGED <<cacheVars, auxVars, taskPos, baseLoad, spatialIndex, run, clientOps, cbVars>>

\* admin-tasks.service.ts lines 60-74
manuallyAssignTaskRead(c, t, w) ==
  ClientBegin(c, "manuallyAssignTask", t, w,
    IF taskStatus[t] # "unassigned" /\ taskStatus[t] # "rejected"
    THEN "Task is already assigned or completed" ELSE "")

\* admin-tasks.service.ts lines 92-101
manuallyAssignTaskWrite(c) ==
  ClientUpdate(c, "manuallyAssignTask", "assigned", TRUE)
  /\ UNCHANGED rejections

\* admin-tasks.service.ts lines 132-163
reallocateTaskRead(c, t, w) ==
  ClientBegin(c, "reallocateTask", t, w,
    IF ~canReallocateTask(taskStatus[t], defaultTaskReallocationConfig)
    THEN getReallocationErrorMessage(taskStatus[t],
                                     defaultTaskReallocationConfig)
    ELSE "")

\* admin-tasks.service.ts lines 191-200
reallocateTaskWrite(c) ==
  ClientUpdate(c, "reallocateTask", "assigned", TRUE)
  /\ UNCHANGED rejections

\* WorkerTasksService.acceptTask: the ownership check, then the update
acceptTaskRead(c, t, w) ==
  ClientBegin(c, "acceptTask", t, w,
    IF taskWorker[t] # w THEN "You cannot accept this task" ELSE "")

acceptTaskWrite(c) ==
  ClientUpdate(c, "acceptTask", "accepted", FALSE) /\ UNCHANGED rejections

\* WorkerTasksService.rejectTask: the update and the taskRejection row
rejectTaskRead(c, t, w) ==
  ClientBegin(c, "rejectTask", t, w,
    IF taskWorker[t] # w THEN "You cannot reject this task" ELSE "")

rejectTaskWrite(c) ==
  /\ ClientUpdate(c, "rejectTask", "rejected", FALSE)
  /\ rejections' = rejections \cup {<<client[c].task, client[c].worker>>}

\* WorkerTasksService.completeTask
completeTaskRead(c, t, w) ==
  ClientBegin(c, "completeTask", t, w,
    IF taskWorker[t] # w THEN "You cannot complete this task" ELSE "")

completeTaskWrite(c) ==
  ClientUpdate(c, "completeTask", "completed", FALSE) /\ UNCHANGED rejections

\* WorkerTasksService.acceptRejectedTask
acceptRejectedTaskRead(c, t, w) ==
  ClientBegin(c, "acceptRejectedTask", t, w,
    IF taskWorker[t] # w THEN "You cannot accept this task"
    ELSE IF taskStatus[t] # "rejected" THEN "Task is not rejected"
    ELSE IF <<t, w>> \notin rejections
         THEN "You have not rejected this task"
    ELSE "")

acceptRejectedTaskWrite(c) ==
  ClientUpdate(c, "acceptRejectedTask", "accepted", FALSE)
  /\ UNCHANGED rejections


\* ------------------------------------- RedisCacheService circuit breaker
TickSteps == {1, recoveryTimeout}

onCircuitBreakerSuccess(cb) ==
  [cb EXCEPT !.failures = 0,
             !.state = IF @ = "HALF_OPEN" THEN "CLOSED" ELSE @]

onCircuitBreakerFailure(cb) ==
  [cb EXCEPT !.failures = @ + 1, !.lastFailure = now]

\* lines 850-857: a CLOSED breaker at the threshold opens
openIfThreshold(cb) ==
  IF cb.state = "CLOSED" /\ cb.failures >= failureThreshold
  THEN [cb EXCEPT !.state = "OPEN", !.lastFailure = now]
  ELSE cb

\* a breaker that half-opens as soon as the recovery timeout is reached
halfOpenAtTimeout(cb) ==
  IF cb.state = "OPEN" /\ now - cb.lastFailure >= recoveryTimeout
  THEN [cb EXCEPT !.state = "HALF_OPEN"]
  ELSE cb

\* lines 859-866: an OPEN breaker past the recovery timeout half-opens
halfOpenIfRecovered(cb) ==
  IF cb.state = "OPEN" /\ now - cb.lastFailure > recoveryTimeout
  THEN [cb EXCEPT !.state = "HALF_OPEN"]
  ELSE cb

\* executeWithCircuitBreaker up to `await operation()`: the two transitions,
\* then the rejection while OPEN or the call of the cache operation
executeWithCircuitBreakerEnter ==
  /\ calls.begun < MaxCalls
  /\ LET cb == halfOpenIfRecovered(openIfThreshold(circuitBreaker))
     IN /\ circuitBreaker' = cb
        /\ IF cb.state = "OPEN"
           THEN calls' = [calls EXCEPT !.begun = @ + 1,
                                       !.event = "rejected"]
           ELSE /\ calls.inflight < MaxInflight
                /\ calls' = [calls EXCEPT !.begun = @ + 1,
                                          !.inflight = @ + 1,
                                          !.event = "invoked"]
  /\ UNCHANGED <<storeVars, cacheVars, auxVars, taskPos, baseLoad, spatialIndex, run, client,
                 clientOps, now>>

\* the cache operation of a wrapped call settles (lines 874-881)
executeWithCircuitBreakerSettle(ok) ==
  /\ calls.inflight > 0
  /\ circuitBreaker' = IF ok THEN onCircuitBreakerSuccess(circuitBreaker)
                       ELSE onCircuitBreakerFailure(circuitBreaker)
  /\ calls' = [calls EXCEPT
       !.inflight = @ - 1,
       !.event = IF ~ok THEN "failure"
                 ELSE IF circuitBreaker.state = "HALF_OPEN" THEN "closed"
                 ELSE "success"]
  /\ UNCHANGED <<storeVars, cacheVars, auxVars, taskPos, baseLoad, spatialIndex, run, client,
                 clientOps, now>>

\* lines 766-771
resetCircuitBreaker ==
  /\ circuitBreaker' = [failures |-> 0, lastFailure |-> 0, state |-> "CLOSED"]
  /\ calls' = [calls EXCEPT !.event = "reset"]
  /\ UNCHANGED <<storeVars, cacheVars, auxVars, taskPos, baseLoad, spatialIndex, run, client,
                 clientOps, now>>

\* the clock moves on
Tick(d) ==
  /\ calls.ticks < MaxTicks
  /\ now' = now + d
  /\ calls' = [calls EXCEPT !.ticks = @ + 1, !.event = "tick"]
  /\ UNCHANGED <<storeVars, cacheVars, auxVars, taskPos, baseLoad, spatialIndex, run, client,
                 clientOps, circuitBreaker>>

\* ------------------------------------ RedisCacheService: the summary key
\* What the key worker:summary:<id> can hold: nothing, a string that is not
\* JSON, or the serialized summary: its assigned count and its total (the
\* other four counts stay 0 here: no update followed here changes them).
SummaryAbsent == [kind |-> "absent", assigned |-> 0, total |-> 0]
SummaryCorrupt == [kind |-> "corrupt", assigned |-> 0, total |-> 0]
Summary(n) == [kind |-> "json", assigned |-> n, total |-> n]

\* one call made (or refused) on behalf of a method: the redis command, how
\* it ended, and the breaker's state when it was about to be issued
CacheCall(call, outcome, state) ==
  [call |-> call, outcome |-> outcome, breaker |-> state]
Issued(entry) == entry.outcome \in {"ok", "failed"}
LastOk(st) == st.log[Len(st.log)].outcome = "ok"

\* executeWithCircuitBreaker(operation) run to its end, on st = [cb, log];
\* `ok` is how the redis command ends when it is issued
executeWithCircuitBreaker(st, call, ok) ==
  LET cb == halfOpenIfRecovered(openIfThreshold(st.cb))
  IN IF cb.state = "OPEN"
     THEN [cb |-> cb,
           log |-> Append(st.log, CacheCall(call, "rejected", cb.state))]
     ELSE [cb |-> IF ok THEN onCircuitBreakerSuccess(cb)
                  ELSE onCircuitBreakerFailure(cb),
           log |-> Append(st.log,
                     CacheCall(call, IF ok THEN "ok" ELSE "failed", cb.state))]

\* a redis command issued with no breaker around it
directRedisCall(st, call, ok) ==
  [cb |-> st.cb,
   log |-> Append(st.log,
             CacheCall(call, IF ok THEN "ok" ELSE "failed", st.cb.state))]

\* the outer catch of the summary updates (lines 1264-1283): one more del,
\* its own failure logged and dropped
outerCatchDel(st, old, ok) ==
  LET d == executeWithCircuitBreaker(st, "del", ok)
  IN [cb |-> d.cb, log |-> d.log,
      value |-> IF LastOk(d) THEN SummaryAbsent ELSE old]

\* the inner catch (lines 1243-1252): del, whose failure reaches the outer catch
innerCatchDel(st, old, ok1, ok2) ==
  LET d == executeWithCircuitBreaker(st, "del", ok1)
  IN IF LastOk(d)
     THEN [cb |-> d.cb, log |-> d.log, value |-> SummaryAbsent]
     ELSE outerCatchDel(d, old, ok2)

\* the summary the store gives: the tasks of the worker by status, here the
\* assigned ones
freshSummary(w) ==
  Cardinality({t \in Tasks : taskWorker[t] = w /\ taskStatus[t] = "assigned"})

\* getWorkerTaskSummaryCached on a missing key (lines 508-576): read, count
\* in the store, write; both cache failures are caught
getWorkerTaskSummaryCached(st, w, okRead, okWrite) ==
  LET r == executeWithCircuitBreaker(st, "get", okRead)
      x == executeWithCircuitBreaker(r, "setex", okWrite)
  IN [cb |-> x.cb, log |-> x.log,
      value |-> IF LastOk(x) THEN Summary(freshSummary(w)) ELSE SummaryAbsent]

\* updateWorkerTaskSummaryCache / updateWorkerTaskSummaryCacheBulk with the
\* key holding `old`: oks[i] is how the i-th redis command ends if issued;
\* the result is [cb, log, value]
summaryDeltaUpdate(w, old, delta, oks) ==
  LET st0 == [cb |-> circuitBreaker, log |-> <<>>]
      read == executeWithCircuitBreaker(st0, "get", oks[1])
  IN IF ~LastOk(read) THEN outerCatchDel(read, old, oks[2])
     ELSE IF old = SummaryAbsent
          THEN getWorkerTaskSummaryCached(read, w, oks[2], oks[3])
     ELSE IF old = SummaryCorrupt
          THEN innerCatchDel(
                 [cb |-> read.cb,
                  log |-> Append(read.log,
                            CacheCall("parse", "threw", read.cb.state))],
                 old, oks[2], oks[3])
     ELSE LET write == executeWithCircuitBreaker(read, "setex", oks[2])
          IN IF LastOk(write)
             THEN [cb |-> write.cb, log |-> write.log,
                   \* summary.total = Object.values(summary).reduce(...):
                   \* the values summed include the parsed total itself
                   value |-> [kind |-> "json",
                              assigned |-> old.assigned + delta,
                              total |-> (old.assigned + delta) + old.total]]
             ELSE innerCatchDel(write, old, oks[3], oks[4])

\* the redis commands one summary update can issue
MaxCallsPerUpdate == 4
\* the worker whose summary key is followed, and the bulk delta
SummaryWorkers == {WorkerList[1]}
BulkAssigned == 2
CallOutcomes == [1..MaxCallsPerUpdate -> BOOLEAN]

\* a public cache method runs to its end
CacheMethod(method, w, res) ==
  /\ cache.ops < MaxCacheOps
  /\ circuitBreaker' = res.cb
  /\ cache' = [cache EXCEPT !.summary[w] = res.value,
                            !.ops = @ + 1,
                            !.method = method,
                            !.worker = w,
                            !.log = res.log]
  /\ UNCHANGED <<storeVars, auxVars, taskPos, baseLoad, spatialIndex, run, client,
                 clientOps, now, calls, sync>>

\* lines 1191-1286
updateWorkerTaskSummaryCache(w, oks) ==
  CacheMethod("updateWorkerTaskSummaryCache", w,
              summaryDeltaUpdate(w, cache.summary[w], 1, oks))

\* lines 1088-1189, taskCounts = { assigned: n }
updateWorkerTaskSummaryCacheBulk(w, n, oks) ==
  CacheMethod("updateWorkerTaskSummaryCacheBulk", w,
              summaryDeltaUpdate(w, cache.summary[w], n, oks))

\* set(key, value) on the summary key (lines 1421-1432): no breaker
set(w, value, ok) ==
  LET d == directRedisCall([cb |-> circuitBreaker, log |-> <<>>], "setex", ok)
  IN CacheMethod("set", w,
       [cb |-> d.cb, log |-> d.log,
        value |-> IF ok THEN value ELSE cache.summary[w]])

\* get(key) (lines 1434-1441): no breaker
get(w, ok) ==
  LET d == directRedisCall([cb |-> circuitBreaker, log |-> <<>>], "get", ok)
  IN CacheMethod("get", w,
       [cb |-> d.cb, log |-> d.log, value |-> cache.summary[w]])

\* del(key) (lines 1443-1450): no breaker
del(w, ok) ==
  LET d == directRedisCall([cb |-> circuitBreaker, log |-> <<>>], "del", ok)
  IN CacheMethod("del", w,
       [cb |-> d.cb, log |-> d.log,
        value |-> IF ok THEN SummaryAbsent ELSE cache.summary[w]])

\* invalidateWorkerTaskCache(workerId) (lines 648-675): scan, then del of
\* the keys found, no breaker and no catch
invalidateWorkerTaskCache(w, okScan, okDel) ==
  LET st0 == [cb |-> circuitBreaker, log |-> <<>>]
      scan == directRedisCall(st0, "scan", okScan)
      hit == okScan /\ cache.summary[w] # SummaryAbsent
      d == IF hit THEN directRedisCall(scan, "del", okDel) ELSE scan
  IN CacheMethod("invalidateWorkerTaskCache", w,
       [cb |-> d.cb, log |-> d.log,
        value |-> IF hit /\ okDel THEN SummaryAbsent ELSE cache.summary[w]])

\* ---------------------------- the versioned key workers:spatial_index
\* The key holds the snapshot some run serialized; <key>:version holds a
\* number, 0 standing for a missing version key (getCacheVersion gives 0 for
\* it).  Both keys live 300 s, longer than the clock runs here.
NoSnapshot == [by |-> "none", version |-> 0]
Snapshot(r, v) == [by |-> r, version |-> v]
Versions == 1..MaxVersion

IdleSync ==
  [pc |-> "idle", version |-> 0, result |-> "none", n |-> 0,
   before |-> [spatial |-> NoSnapshot, version |-> 0]]

\* getCacheVersion(key) (lines 1594-1603): 0 when the read fails
getCacheVersion(ok) == IF ok THEN cache.version ELSE 0

\* `currentVersion && currentVersion >= version`
versionConflict(currentVersion, version) ==
  currentVersion # 0 /\ currentVersion >= version

SyncStep(r, rec) ==
  /\ sync' = [sync EXCEPT ![r] = rec]
  /\ UNCHANGED <<storeVars, auxVars, taskPos, baseLoad, spatialIndex, run, client,
                 clientOps, cbVars>>

\* syncCacheWithVersion(key, data, version) is called (line 319)
syncCacheWithVersion(r, v) ==
  /\ sync[r].pc = "idle" /\ sync[r].n < MaxSyncCalls
  /\ SyncStep(r, [pc |-> "syncRead", version |-> v, result |-> "none",
                  n |-> sync[r].n + 1,
                  before |-> [spatial |-> cache.spatial,
                              version |-> cache.version]])
  /\ UNCHANGED cache

\* advanced-cache.service.ts lines 325-332: the first version check
syncReadVersion(r, ok) ==
  /\ sync[r].pc = "syncRead"
  /\ SyncStep(r, IF versionConflict(getCacheVersion(ok), sync[r].version)
                 THEN [sync[r] EXCEPT !.pc = "idle", !.result = "false"]
                 ELSE [sync[r] EXCEPT !.pc = "updateRead"])
  /\ UNCHANGED cache

\* updateCacheWithVersion lines 1620-1627: the second version check; its
\* `false` is dropped by syncCacheWithVersion, which goes on to return true
updateReadVersion(r, ok) ==
  /\ sync[r].pc = "updateRead"
  /\ SyncStep(r, IF versionConflict(getCacheVersion(ok), sync[r].version)
                 THEN [sync[r] EXCEPT !.pc = "idle", !.result = "true"]
                 ELSE [sync[r] EXCEPT !.pc = "updateData"])
  /\ UNCHANGED cache

\* line 1629: redis.setex(key, 300, data); a failure ends
\* updateCacheWithVersion with false, and syncCacheWithVersion with true
updateWriteData(r, ok) ==
  /\ sync[r].pc = "updateData"
  /\ SyncStep(r, IF ok THEN [sync[r] EXCEPT !.pc = "updateVersion"]
                 ELSE [sync[r] EXCEPT !.pc = "idle", !.result = "true"])
  /\ cache' = IF ok
              THEN [cache EXCEPT !.spatial = Snapshot(r, sync[r].version)]
              ELSE cache

\* line 1630: setCacheVersion (lines 1605-1612), its failure logged and dropped
updateWriteVersion(r, ok) ==
  /\ sync[r].pc = "updateVersion"
  /\ SyncStep(r, [sync[r] EXCEPT !.pc = "idle", !.result = "true"])
  /\ cache' = IF ok THEN [cache EXCEPT !.version = sync[r].version]
              ELSE cache

\* task-allocation.service.ts line 365: cacheVersion = Date.now(), taken
\* before the run's cache writes
publishSnapshot(r) ==
  /\ sync[r].pc = "idle" /\ sync[r].n < MaxSyncCalls
  /\ SyncStep(r, [pc |-> "publishSet", version |-> now, result |-> "none",
                  n |-> sync[r].n + 1,
                  before |-> [spatial |-> cache.spatial,
                              version |-> cache.version]])
  /\ UNCHANGED cache

\* line 366: cacheWorkersWithSpatialIndex sets workers:spatial_index with no
\* version check (advanced-cache.service.ts 49-53), failures caught; line
\* 372 then calls syncCacheWithVersion
publishSetSnapshot(r, ok) ==
  /\ sync[r].pc = "publishSet"
  /\ SyncStep(r, [sync[r] EXCEPT !.pc = "syncRead"])
  /\ cache' = IF ok
              THEN [cache EXCEPT !.spatial = Snapshot(r, sync[r].version)]
              ELSE cache

SyncSteps(r) ==
  \/ \E ok \in BOOLEAN : syncReadVersion(r, ok)
  \/ \E ok \in BOOLEAN : updateReadVersion(r, ok)
  \/ \E ok \in BOOLEAN : updateWriteData(r, ok)
  \/ \E ok \in BOOLEAN : updateWriteVersion(r, ok)

\* ------------------------------------------------------ the specifications
\* the state after construction and import: every task pending, no request
\* or run started, the breaker as declared
\* ------------------------------------- SpatialIndexService: the grid cells
\* Coordinates are thousandths of a degree; a grid cell (GRID_SIZE = 0.01
\* degrees) is CellUnits of them on each side.
CellUnits == 10

\* getGridKey: Math.floor(lat / GRID_SIZE), Math.floor(lon / GRID_SIZE)
getGridKey(p) == [lat |-> p.lat \div CellUnits, lon |-> p.lon \div CellUnits]

\* getSearchCells(lat, lon, radiusKm / 111): the square of cells around the
\* centre cell, gridRadius = Math.ceil((radiusKm / 111) / GRID_SIZE) cells
\* each way, the same number along latitude and longitude
getSearchCells(p, radiusKm) ==
  LET gridRadius == (radiusKm * 1000 + 111 * CellUnits - 1)
                      \div (111 * CellUnits)
      centre == getGridKey(p)
  IN {[lat |-> centre.lat + latOffset, lon |-> centre.lon + lonOffset] :
        latOffset \in -gridRadius..gridRadius,
        lonOffset \in -gridRadius..gridRadius}

\* haversineDistance(p, q) <= radiusKm for two points a few kilometres
\* apart: a thousandth of a degree is 111.195 m northwards (R = 6371) and
\* that times cos(latitude) eastwards; cosines in thousandths
withinRadius(p, q, radiusKm) ==
  LET degree == p.lat \div 1000
      cosMilli == IF degree = 60 THEN 500
                  ELSE IF degree = 23 THEN 915 ELSE 1000
      north == (Abs(p.lat - q.lat) * 111195) \div 1000
      east == (((Abs(p.lon - q.lon) * 111195) \div 1000) * cosMilli) \div 1000
  IN north * north + east * east
       <= (radiusKm * MetresPerKm) * (radiusKm * MetresPerKm)

IdleGrid ==
  [pc |-> "idle", worker |-> [lat |-> 0, lon |-> 0],
   key |-> [lat |-> 0, lon |-> 0], task |-> [lat |-> 0, lon |-> 0],
   found |-> FALSE]

\* buildSpatialIndex with one worker: the worker is filed under its cell
gridBuildSpatialIndex(worker) ==
  /\ grid.pc = "idle"
  /\ grid' = [IdleGrid EXCEPT !.pc = "built", !.worker = worker,
                              !.key = getGridKey(worker)]
  /\ UNCHANGED <<storeVars, cacheVars, monitor, workerCache, taskPos,
                 baseLoad, spatialIndex, run, client, clientOps, cbVars>>

\* findNearbyWorkers(task, radiusKm): the workers filed under a searched
\* cell that pass the exact distance filter
gridFindNearbyWorkers(task, radiusKm) ==
  /\ grid.pc = "built"
  /\ task.lat \div 1000 = grid.worker.lat \div 1000
  /\ grid' = [grid EXCEPT
        !.pc = "queried", !.task = task,
        !.found = /\ grid.key \in getSearchCells(task, radiusKm)
                  /\ withinRadius(task, grid.worker, radiusKm)]
  /\ UNCHANGED <<storeVars, cacheVars, monitor, workerCache, taskPos,
                 baseLoad, spatialIndex, run, client, clientOps, cbVars>>

\* startOperation / endOperation called on their own
monitorStart(id) ==
  /\ monitor.ops < MaxMonitorOps
  /\ \A i \in 1..Len(monitor.tail) : monitor.tail[i].id # id
  /\ monitor' = [startOperation(monitor, id) EXCEPT !.ops = @ + 1]
  /\ UNCHANGED <<storeVars, cacheVars, grid, workerCache, taskPos, baseLoad,
                 spatialIndex, run, client, clientOps, cbVars>>
monitorEnd(id) ==
  /\ monitor.ops < MaxMonitorOps
  /\ monitor' = [endOperation(monitor, id) EXCEPT !.ops = @ + 1]
  /\ UNCHANGED <<storeVars, cacheVars, grid, workerCache, taskPos, baseLoad,
                 spatialIndex, run, client, clientOps, cbVars>>

\* an admin activates or deactivates workers: the rows getWorkers() finds
\* (role WORKER, active, with coordinates) become `workers`
changeActiveWorkers(workers) ==
  /\ workerCache # workers
  /\ workerCache' = workers
  /\ UNCHANGED <<storeVars, cacheVars, grid, monitor, taskPos, baseLoad,
                 spatialIndex, run, client, clientOps, cbVars>>

\* the state after construction, for any geography and load
InitRest ==
  /\ taskStatus = [t \in Tasks |-> "unassigned"]
  /\ taskWorker = [t \in Tasks |-> NoWorker]
  /\ spatialIndex = <<>>
  /\ run = [r \in Runs |-> IdleRun]
  /\ rejections = {}
  /\ client = [c \in Clients |-> IdleClient]
  /\ clientOps = 0
  /\ circuitBreaker = [failures |-> 0, lastFailure |-> 0, state |-> "CLOSED"]
  /\ now = recoveryTimeout + 1
  /\ calls = [inflight |-> 0, begun |-> 0, ticks |-> 0, event |-> "none"]
  /\ cache = [summary |-> [w \in Workers |-> SummaryAbsent],
              spatial |-> NoSnapshot, version |-> 0,
              ops |-> 0, method |-> "none", worker |-> NoWorker,
              log |-> <<>>]
  /\ sync = [r \in Runs |-> IdleSync]
  /\ grid = IdleGrid
  /\ workerCache = WorkerList

Init ==
  /\ taskPos \in [Tasks -> TaskPositions]
  /\ baseLoad \in [Workers -> InitialLoads]
  /\ monitor = [base |-> 0, tail |-> <<>>, ops |-> 0]
  /\ InitRest

\* a monitor that has seen no operation, or MAX_METRICS - 1 or MAX_METRICS
\* operations started and ended
InitMonitor ==
  /\ taskPos = [t \in Tasks |-> MetresPerKm]
  /\ baseLoad = [w \in Workers |-> MAX_TASKS_PER_WORKER - 1]
  /\ monitor \in {[base |-> b, tail |-> <<>>, ops |-> 0] :
                    b \in {0, MAX_METRICS - 1, MAX_METRICS}}
  /\ InitRest

\* the geographies and loads worker selection is examined on: a task
\* equidistant from both workers, and workers that are idle, under the cap
\* with different loads, and at the cap
SelectPositions == TaskPositions \cup {4 * MetresPerKm}
SelectLoads == InitialLoads \cup {0, MAX_TASKS_PER_WORKER - 2}
InitSelect ==
  /\ taskPos \in [Tasks -> SelectPositions]
  /\ baseLoad \in [Workers -> SelectLoads]
  /\ monitor = [base |-> 0, tail |-> <<>>, ops |-> 0]
  /\ InitRest

\* Init with the one geography and load the store-only and breaker-only
\* specifications need
InitFixed ==
  /\ Init
  /\ taskPos = [t \in Tasks |-> MetresPerKm]
  /\ baseLoad = [w \in Workers |-> MAX_TASKS_PER_WORKER - 1]

OptStep(r) ==
  \/ \E bs \in BatchSizes, ok \in BOOLEAN : OptStart(r, bs, ok)
  \/ \E cacheOk \in BOOLEAN : OptPublish(r, cacheOk)
  \/ \E countsOk \in BOOLEAN : OptPropose(r, countsOk)
  \/ \E ok \in BOOLEAN : OptCommit(r, ok)
  \/ \E cacheOk \in BOOLEAN : OptFinish(r, cacheOk)

LegacyStep(r) ==
  \/ \E bs \in BatchSizes, ok \in BOOLEAN : LegacyStart(r, bs, ok)
  \/ \E t \in Tasks, fails \in SUBSET Workers : LegacyPick(r, t, fails)
  \/ \E t \in Tasks, ok \in BOOLEAN : LegacyUpdate(r, t, ok)
  \/ \E cacheOk \in BOOLEAN : LegacyFinish(r, cacheOk)

ManualAssignStep(c) ==
  \/ \E t \in Tasks, w \in Workers : manuallyAssignTaskRead(c, t, w)
  \/ manuallyAssignTaskWrite(c)

ClientStep(c) ==
  \/ ManualAssignStep(c)
  \/ \E t \in Tasks, w \in Workers :
       \/ reallocateTaskRead(c, t, w)
       \/ acceptTaskRead(c, t, w)
       \/ rejectTaskRead(c, t, w)
       \/ completeTaskRead(c, t, w)
       \/ acceptRejectedTaskRead(c, t, w)
  \/ reallocateTaskWrite(c)
  \/ acceptTaskWrite(c)
  \/ rejectTaskWrite(c)
  \/ completeTaskWrite(c)
  \/ acceptRejectedTaskWrite(c)

\* allocation runs of both kinds, concurrently
Next == \E r \in Runs : OptStep(r) \/ LegacyStep(r)
Spec == Init /\ [][Next]_vars

\* concurrent allocateTasksOptimized runs alone
OptNext == \E r \in Runs : OptStep(r)
SpecOpt == Init /\ [][OptNext]_vars

\* one run of each allocation path, racing
PathsNext == OptStep("r1") \/ LegacyStep("r2")
SpecPaths == Init /\ [][PathsNext]_vars

\* two optimized runs one after the other: the second starts once the first
\* has returned its result, and nothing else touches tasks or workers
RerunNext ==
  \/ OptStep("r1")
  \/ run["r1"].pc = "done" /\ OptStep("r2")
SpecRerun == Init /\ [][RerunNext]_vars

\* the grid queried at the equator, at Dhaka's latitude and at 60 degrees
\* north, from both edges of a cell, for workers up to 0.15 degrees away
GridNext ==
  \/ \E lat \in {0, 23800, 60000}, dLat \in {0, 50},
        dLon \in {-150, -98, -90, -80, 0, 80, 90, 98, 150} :
       gridBuildSpatialIndex([lat |-> lat + dLat, lon |-> dLon])
  \/ \E lat \in {0, 23800, 60000}, lon \in {0, CellUnits - 1} :
       gridFindNearbyWorkers([lat |-> lat, lon |-> lon],
                             MAX_ALLOCATION_RADIUS)
SpecGrid == InitFixed /\ [][GridNext]_vars

\* two runs, one of them of either path, racing while the set of active
\* workers changes
OwnerNext ==
  \/ \E r \in Runs : OptStep(r)
  \/ LegacyStep("r2")
  \/ \E workers \in {<<>>, <<WorkerList[1]>>, WorkerList} :
       changeActiveWorkers(workers)
SpecOwner == InitFixed /\ [][OwnerNext]_vars

\* the monitor driven directly
MonitorNext ==
  \E id \in {"a", "b", "c"} : monitorStart(id) \/ monitorEnd(id)
SpecMonitor == InitMonitor /\ [][MonitorNext]_vars

\* one optimized run over the selection geographies and loads
SelectNext == OptStep("r1")
SpecSelect == InitSelect /\ [][SelectNext]_vars

\* one optimized run whose cache store may stop answering; the event loop
\* runs every continuation that is ready
HangNext == OptStep("r1") \/ OptPublishHangs("r1")
SpecHang == Init /\ [][HangNext]_vars /\ WF_vars(HangNext)

\* one allocateTasksOptimized run racing one manual assignment
RaceNext == OptStep("r1") \/ ManualAssignStep("c1")
SpecRace == Init /\ [][RaceNext]_vars

\* admin and worker requests on the task store, no allocation run
TasksNext == \E c \in Clients : ClientStep(c)
SpecTasks == InitFixed /\ [][TasksNext]_vars

\* the circuit breaker under wrapped calls, the clock and the manual reset
BreakerNext ==
  \/ executeWithCircuitBreakerEnter
  \/ \E ok \in BOOLEAN : executeWithCircuitBreakerSettle(ok)
  \/ resetCircuitBreaker
  \/ \E d \in TickSteps : Tick(d)
SpecBreaker == InitFixed /\ [][BreakerNext]_vars

\* the public cache methods on the summary key, with the breaker and the clock
CacheNext ==
  \/ \E w \in SummaryWorkers, oks \in CallOutcomes :
       updateWorkerTaskSummaryCache(w, oks)
  \/ \E w \in SummaryWorkers, oks \in CallOutcomes :
       updateWorkerTaskSummaryCacheBulk(w, BulkAssigned, oks)
  \/ \E w \in SummaryWorkers, v \in {Summary(0), SummaryCorrupt},
        ok \in BOOLEAN : set(w, v, ok)
  \/ \E w \in SummaryWorkers, ok \in BOOLEAN : get(w, ok)
  \/ \E w \in SummaryWorkers, ok \in BOOLEAN : del(w, ok)
  \/ \E w \in SummaryWorkers, okScan \in BOOLEAN, okDel \in BOOLEAN :
       invalidateWorkerTaskCache(w, okScan, okDel)
  \/ \E d \in TickSteps : Tick(d)
SpecCache == InitFixed /\ [][CacheNext]_vars

\* one caller of syncCacheWithVersion at a time
SyncNext ==
  \/ \E v \in Versions : syncCacheWithVersion("r1", v)
  \/ SyncSteps("r1")
SpecSync == InitFixed /\ [][SyncNext]_vars

\* allocation runs publishing the worker snapshot concurrently
PublishNext ==
  \/ \E r \in Runs :
       \/ publishSnapshot(r)
       \/ \E ok \in BOOLEAN : publishSetSnapshot(r, ok)
       \/ SyncSteps(r)
  \/ \E d \in TickSteps : Tick(d)
SpecPublish == InitFixed /\ [][PublishNext]_vars

\* -------------------------------------------------------------- properties
\* what a run proposed and what its transaction committed
ProposedTasks(r) ==
  {run[r].allocations[i].taskId : i \in 1..Len(run[r].allocations)}
CommittedTasks(r) == Range(run[r].successful)
ProposedWorker(r, t) ==
  (CHOOSE a \in Range(run[r].allocations) : a.taskId = t).workerId
CommittedAllocations(r) ==
  SelectSeq(run[r].allocations, LAMBDA a : a.taskId \in CommittedTasks(r))
\* the run is past its commit step
PastCommit(r) == run[r].kind = "opt" /\ run[r].pc \in {"finish", "done"}

\* C1: when concurrent allocateTasksOptimized runs hold the same unassigned
\* task, the task is in the committed set of at most one run; it is in the
\* committed set of exactly one as soon as a run that proposed it has run its
\* transaction; and it is assigned to the worker the committing run proposed.
C1_ExactlyOneRunCommits ==
  \A t \in Tasks :
    /\ Cardinality({r \in Runs : t \in CommittedTasks(r)}) <= 1
    /\ (\E r \in Runs : t \in ProposedTasks(r) /\ PastCommit(r))
         => \E r \in Runs : t \in CommittedTasks(r)
    /\ \A r \in Runs :
         t \in CommittedTasks(r)
           => /\ taskStatus[t] = "assigned"
              /\ taskWorker[t] = ProposedWorker(r, t)

\* both runs proposed the same task, both ran their transaction, one of them
\* committed it and the other matched zero rows
C1_BothProposedOneCommitted ==
  \E t \in Tasks :
    /\ \A r \in Runs : t \in ProposedTasks(r) /\ run[r].pc = "done"
    /\ \E r \in Runs : t \in CommittedTasks(r)
    /\ \E r \in Runs : t \notin CommittedTasks(r)

\* C2: after a run (whose load counts were read from the store) commits,
\* every worker it committed an allocation to has at most
\* MAX_TASKS_PER_WORKER active tasks.
C2_CommittedWorkersWithinCap ==
  \A r \in Runs :
    PastCommit(r) /\ ~run[r].countsFailed
      => \A w \in run[r].affected : ActiveCount(w) <= MAX_TASKS_PER_WORKER

\* C3: once a run is past its commit, its allocated count, its affected
\* workers and its average distance are those of the committed allocations
\* alone, also when none was committed.
C3_SummaryFromCommittedOnly ==
  \A r \in Runs :
    PastCommit(r)
      => /\ run[r].allocated = Len(CommittedAllocations(r))
         /\ run[r].affected =
              {a.workerId : a \in Range(CommittedAllocations(r))}
         /\ run[r].avgDistance =
              calculateAverageDistance(CommittedAllocations(r))

\* C4: a run that met a failing store call (the task fetch, the load count
\* lookup or the commit) never completes and commits no task.
C4_StoreFailureAbortsRun ==
  \A r \in Runs :
    run[r].storeFailed \/ run[r].countsFailed
      => run[r].pc # "done" /\ run[r].successful = <<>>

\* C5: an allocation run of either kind throws only when a store call
\* failed; failing cache calls never make it throw.
C5_CacheFailureNeverThrows ==
  \A r \in Runs : run[r].pc = "thrown" => run[r].storeFailed

\* C6: when an allocation run races manuallyAssignTask on one unassigned
\* task, the task is assigned once: no step replaces the assignee of a task
\* that is already assigned.
C6_AssignedOnce ==
  [][\A t \in Tasks :
       taskStatus[t] = "assigned" => taskWorker'[t] = taskWorker[t]]_vars

\* C7: every write an automatic allocation run (optimized or legacy) makes
\* to a task takes it from unassigned to assigned; a task that is not
\* unassigned at the moment of the write is left as it is.
C7_RunsWriteOnlyUnassigned ==
  [][\A t \in Tasks :
       taskStatus'[t] # taskStatus[t] \/ taskWorker'[t] # taskWorker[t]
         => taskStatus[t] = "unassigned" /\ taskStatus'[t] = "assigned"]_vars

\* the status edges the lifecycle has
LifecycleEdges ==
  {<<"unassigned", "assigned">>, <<"assigned", "accepted">>,
   <<"accepted", "completed">>, <<"assigned", "rejected">>,
   <<"rejected", "accepted">>, <<"rejected", "assigned">>}

\* C8: a task's status changes only along the lifecycle edges, and a
\* completed task never changes status again.
C8_StatusFollowsLifecycle ==
  [][\A t \in Tasks :
       taskStatus'[t] # taskStatus[t]
         => <<taskStatus[t], taskStatus'[t]>> \in LifecycleEdges]_vars

\* C9: under the default configuration a reallocateTask request goes on to
\* its update when the task is unassigned, assigned or rejected, and for an
\* accepted or completed task ends at once with that status's configured
\* message, writing nothing.
C9_DefaultReallocationStatuses ==
  [][\A c \in Clients :
       client[c].pc = "idle" /\ client'[c] # client[c]
       /\ client'[c].op = "reallocateTask"
         => LET status == taskStatus[client'[c].task]
            IN IF status \in {"accepted", "completed"}
               THEN /\ client'[c].pc = "idle"
                    /\ client'[c].error =
                         defaultTaskReallocationConfig.errorMessages[status]
               ELSE client'[c].pc = "write" /\ client'[c].error = ""]_vars

\* C10: under wrapped calls the breaker moves only CLOSED -> OPEN ->
\* HALF_OPEN -> CLOSED; a call entering a CLOSED breaker with
\* failureThreshold failures counted opens it, and it opens no earlier; a
\* call is rejected, invoking nothing, exactly when the breaker is OPEN
\* after its entry; OPEN is left, for HALF_OPEN, only when more than
\* recoveryTimeout has passed since the last failure; a successful call
\* sets the failure count to 0 and closes a HALF_OPEN breaker.
C10_BreakerCycle ==
  [][LET cb == circuitBreaker
         cbNext == circuitBreaker'
         event == calls'.event
     IN calls' # calls /\ event \notin {"reset", "tick"}
          => /\ cbNext.state # cb.state
                  => <<cb.state, cbNext.state>> \in
                       {<<"CLOSED", "OPEN">>, <<"OPEN", "HALF_OPEN">>,
                        <<"HALF_OPEN", "CLOSED">>}
             /\ cb.state = "CLOSED" /\ cbNext.state = "OPEN"
                  => cb.failures >= failureThreshold
             /\ event \in {"rejected", "invoked"} /\ cb.state = "CLOSED"
                /\ cb.failures >= failureThreshold
                  => cbNext.state = "OPEN"
             /\ event \in {"rejected", "invoked"}
                  => /\ (event = "rejected") = (cbNext.state = "OPEN")
                     /\ event = "rejected"
                          => calls'.inflight = calls.inflight
             /\ cb.state = "OPEN" /\ cbNext.state # "OPEN"
                  => now - cb.lastFailure > recoveryTimeout
             /\ event \in {"success", "closed"}
                  => /\ cbNext.failures = 0
                     /\ cb.state = "HALF_OPEN" => cbNext.state = "CLOSED"
             /\ event = "failure" => cbNext.failures = cb.failures + 1]_vars

\* a breaker that opened, half-opened after the timeout, and was closed by
\* a successful call
C10_ClosedAfterHalfOpen ==
  /\ calls.event = "closed"
  /\ circuitBreaker.state = "CLOSED"
  /\ circuitBreaker.failures = 0

\* C11: while the breaker is OPEN no public cache method issues a command
\* to the cache store: every command the last method issued was issued with
\* the breaker not OPEN.
C11_NoStoreCallWhileOpen ==
  \A i \in 1..Len(cache.log) :
    Issued(cache.log[i]) => cache.log[i].breaker # "OPEN"

\* C12: a returned syncCacheWithVersion(key, data, v) has stored data and
\* set the version to v and returned true when v exceeded the version stored
\* at the call, and otherwise has returned false and left data and version
\* as they were.
C12_SyncAcceptsIffNewer ==
  \A r \in Runs :
    sync[r].pc = "idle" /\ sync[r].result # "none"
      => IF sync[r].version > sync[r].before.version
         THEN /\ sync[r].result = "true"
              /\ cache.spatial = Snapshot(r, sync[r].version)
              /\ cache.version = sync[r].version
         ELSE /\ sync[r].result = "false"
              /\ cache.spatial = sync[r].before.spatial
              /\ cache.version = sync[r].before.version

\* C13: while runs race to publish workers:spatial_index, the stored version
\* never decreases and a stored snapshot is replaced only by the snapshot of
\* a run with a higher version.
C13_SnapshotVersionMonotonic ==
  [][/\ cache'.version >= cache.version
     /\ cache.spatial # NoSnapshot /\ cache'.spatial # cache.spatial
          => cache'.spatial.version > cache.spatial.version]_vars

SummaryMethods ==
  {"updateWorkerTaskSummaryCache", "updateWorkerTaskSummaryCacheBulk"}

\* the read, the parse or the write of the delta update did not succeed
DeltaStepFailed(old, log) ==
  \/ log[1].outcome # "ok"
  \/ \E i \in 1..Len(log) : log[i].call = "parse"
  \/ /\ old.kind = "json" /\ Len(log) >= 2
     /\ log[2].call = "setex" /\ log[2].outcome # "ok"

\* C14: when the read, the parse or the write of a summary delta update
\* fails, the worker's summary key is gone when the method returns.
C14_FailedDeltaRemovesKey ==
  [][cache'.ops # cache.ops /\ cache'.method \in SummaryMethods
     /\ DeltaStepFailed(cache.summary[cache'.worker], cache'.log)
       => cache'.summary[cache'.worker] = SummaryAbsent]_vars

\* C15: a run that has reached its cache publish eventually returns its
\* result, also when the cache store never answers.
C15_HungCacheCallRunReturns ==
  run["r1"].pc = "publish" ~> run["r1"].pc \in {"done", "thrown"}

\* the candidates of `nearby` under the cap, by position
UnderCap(nearby, counts) ==
  {i \in 1..Len(nearby) : counts[nearby[i]] < MAX_TASKS_PER_WORKER}
ScoreOf(t, w, counts) ==
  calculateWorkerScore(haversineDistance(t, w), counts[w],
                       MAX_TASKS_PER_WORKER)
\* the first candidate under the cap whose score is maximal, if any
FirstBest(t, nearby, counts) ==
  LET c == UnderCap(nearby, counts)
  IN IF c = {} THEN NoWorker
     ELSE nearby[CHOOSE i \in c :
            \A j \in c :
              /\ ScoreOf(t, nearby[j], counts) <= ScoreOf(t, nearby[i], counts)
              /\ ScoreOf(t, nearby[j], counts) = ScoreOf(t, nearby[i], counts)
                   => i <= j]
\* the run has proposed and its counts are still the ones it proposed with
Proposed(r) ==
  /\ run[r].kind = "opt"
  /\ \/ run[r].pc = "commit"
     \/ run[r].pc = "finish" /\ run[r].allocations = <<>>
\* the tasks of the batch selectBestWorkerOptimized was called for
SelectedFor(r) ==
  {t \in Range(run[r].tasks) :
     taskPos[t] # 0 /\ findNearbyWorkers(t, MAX_ALLOCATION_RADIUS) # <<>>}
SelectionOf(r, t) ==
  IF t \in ProposedTasks(r) THEN ProposedWorker(r, t) ELSE NoWorker

\* C19: selectBestWorkerOptimized returns the first candidate in
\* enumeration order whose score is maximal among the candidates under the
\* cap, and no worker exactly when no candidate is under the cap.
C19_SelectsFirstBestUnderCap ==
  \A r \in Runs : Proposed(r) =>
    \A t \in SelectedFor(r) :
      LET nearby == findNearbyWorkers(t, MAX_ALLOCATION_RADIUS)
      IN /\ SelectionOf(r, t) = FirstBest(t, nearby, run[r].counts)
         /\ SelectionOf(r, t) = NoWorker
              <=> UnderCap(nearby, run[r].counts) = {}

\* a proposal made between two candidates under the cap with equal scores
C19_TieGoesToFirst ==
  /\ Proposed("r1")
  /\ \E t \in SelectedFor("r1") :
       LET nearby == findNearbyWorkers(t, MAX_ALLOCATION_RADIUS)
       IN /\ Len(nearby) = 2
          /\ UnderCap(nearby, run["r1"].counts) = {1, 2}
          /\ ScoreOf(t, nearby[1], run["r1"].counts)
               = ScoreOf(t, nearby[2], run["r1"].counts)
          /\ SelectionOf("r1", t) = nearby[1]

\* C20: between two candidates under the cap at different distances the
\* closer one is selected, whatever their loads: no candidate under the cap
\* is closer to the task than the worker selected for it.
C20_CloserCandidateWins ==
  \A r \in Runs : Proposed(r) =>
    \A t \in ProposedTasks(r) :
      LET nearby == findNearbyWorkers(t, MAX_ALLOCATION_RADIUS)
      IN \A i \in UnderCap(nearby, run[r].counts) :
           haversineDistance(t, ProposedWorker(r, t))
             <= haversineDistance(t, nearby[i])

\* C16: every task a run of either allocation path has assigned has
\* coordinates and lies within MAX_ALLOCATION_RADIUS of its worker.
C16_AssignedWithinRadius ==
  \A t \in Tasks : taskWorker[t] # NoWorker =>
    /\ taskPos[t] # 0
    /\ haversineDistance(t, taskWorker[t])
         <= MAX_ALLOCATION_RADIUS * MetresPerKm

\* a finished run that assigned one task and left a task unassigned whose
\* every worker is outside the radius
C16_FarTaskLeftUnassigned ==
  \E r \in Runs, near, far \in Tasks :
    /\ run[r].pc = "done" /\ run[r].allocated = 1 /\ run[r].failed >= 1
    /\ taskWorker[near] # NoWorker
    /\ taskWorker[far] = NoWorker /\ taskPos[far] # 0
    /\ \A w \in Workers :
         haversineDistance(far, w) > MAX_ALLOCATION_RADIUS * MetresPerKm

\* C17: a run that follows a normally returned run, with no task or worker
\* changed in between, returns allocated = 0 and failed = 0.
C17_RerunFindsNothing ==
  run["r1"].pc = "done" /\ run["r2"].pc = "done"
    => run["r2"].allocated = 0 /\ run["r2"].failed = 0

\* C18: a run of allocateTasksOptimized throws only when a store call
\* failed, and once past its commit it has counted every task of its batch
\* exactly once: in allocated if its guarded update took the task, in failed
\* otherwise.
C18_MissesCountedOnce ==
  \A r \in Runs : run[r].kind = "opt" =>
    /\ run[r].pc = "thrown" => run[r].storeFailed
    /\ PastCommit(r) =>
         /\ run[r].allocated = Cardinality(CommittedTasks(r))
         /\ run[r].failed
              = Cardinality(Range(run[r].tasks) \ CommittedTasks(r))

\* a returned run whose first task was proposed and lost to another run
\* (zero rows updated) and whose second task was still committed
C18_LaterTaskStillCommitted ==
  \E r \in Runs :
    /\ run[r].kind = "opt" /\ run[r].pc = "done"
    /\ Len(run[r].tasks) = 2
    /\ ProposedTasks(r) = Range(run[r].tasks)
    /\ CommittedTasks(r) = {run[r].tasks[2]}
    /\ run[r].allocated = 1 /\ run[r].failed = 1

\* C21: findNearbyWorkers returns an indexed worker exactly when its
\* great-circle distance to the query point is at most radiusKm, at any
\* latitude.
C21_GridNeverMisses ==
  grid.pc = "queried"
    => (grid.found
          <=> withinRadius(grid.task, grid.worker, MAX_ALLOCATION_RADIUS))

\* C22: every worker a run's findNearbyWorkers queries returned, and so
\* every worker it proposed, belongs to the snapshot that run loaded, the
\* workers its workerTaskCounts has entries for.
C22_QueriesUseOwnSnapshot ==
  \A r \in Runs : run[r].kind = "opt" =>
    \A i \in 1..Len(run[r].allocations) :
      run[r].allocations[i].workerId \in Range(run[r].workers)

\* C23: after any sequence of startOperation and endOperation calls the
\* monitor holds at most MAX_METRICS entries.
C23_MetricsBounded == monitor.base + Len(monitor.tail) <= MAX_METRICS

\* C30: a run of allocateTasksOptimized that has returned or thrown has
\* ended the operation it started exactly once.
C30_EveryExitEndsOperation ==
  \A r \in Runs :
    run[r].kind = "opt" /\ run[r].pc \in {"done", "thrown"}
      => \E i \in 1..Len(monitor.tail) :
           monitor.tail[i].id = r /\ monitor.tail[i].ended = 1

\* C24 as stated: a run that starts with no pending task or no active
\* worker returns allocated = 0 and failed = the number of pending tasks,
\* and changes no task.
C24_EmptyRunCountsAllPending ==
  [][\A r \in Runs :
       /\ run[r].pc = "idle" /\ run'[r].pc \notin {"idle", "thrown"}
       /\ findPendingTasks(NumTasks) = <<>> \/ workerCache = <<>>
       => /\ run'[r].pc = "done" /\ run'[r].allocated = 0
          /\ run'[r].failed = Len(findPendingTasks(NumTasks))
          /\ storeVars' = storeVars]_vars

\* C24, amended: such a run returns allocated = 0 and failed = the number
\* of pending tasks it fetched, which is all of them for allocateTasks and
\* at most batchSize of them for allocateTasksOptimized, and changes no task.
C24_EmptyRunCountsFetched ==
  [][\A r \in Runs :
       /\ run[r].pc = "idle" /\ run'[r].pc \notin {"idle", "thrown"}
       /\ findPendingTasks(NumTasks) = <<>> \/ workerCache = <<>>
       => /\ run'[r].pc = "done" /\ run'[r].allocated = 0
          /\ run'[r].failed
               = IF run'[r].kind = "opt"
                 THEN Min(run'[r].batchSize, Len(findPendingTasks(NumTasks)))
                 ELSE Len(findPendingTasks(NumTasks))
          /\ storeVars' = storeVars]_vars

\* a run of each path has returned early for want of workers, with pending
\* tasks counted as failed and still unassigned
C24_ReturnedWithoutWorkers ==
  /\ \A r \in Runs :
       /\ run[r].pc = "done" /\ run[r].workers = <<>>
       /\ run[r].allocated = 0 /\ run[r].failed > 0
  /\ run["r1"].kind = "opt" /\ run["r2"].kind = "legacy"
  /\ \A t \in Tasks : taskStatus[t] = "unassigned"

\* C25: getWorkerCurrentTaskCount returns the number of the worker's tasks
\* in status assigned or accepted, and 0 when the store call fails;
\* canWorkerAcceptTask is true exactly when that count is below the cap.
C25_CountAndCapacity ==
  \A w \in Workers, ok \in BOOLEAN :
    LET active == baseLoad[w]
                  + Cardinality({t \in Tasks :
                       /\ taskWorker[t] = w
                       /\ taskStatus[t] \in {"assigned", "accepted"}})
        count == getWorkerCurrentTaskCount(w, ok)
    IN /\ count = IF ok THEN active ELSE 0
       /\ canWorkerAcceptTask(w, ok) <=> count < MAX_TASKS_PER_WORKER

\* a worker brought to the cap by a task it accepted, so that it can take
\* no more unless the count lookup fails, beside a worker under the cap
C25_AcceptedTaskFillsWorker ==
  \E w, v \in Workers, t \in Tasks :
    /\ taskWorker[t] = w /\ taskStatus[t] = "accepted"
    /\ getWorkerCurrentTaskCount(w, TRUE) = MAX_TASKS_PER_WORKER
    /\ ~canWorkerAcceptTask(w, TRUE) /\ canWorkerAcceptTask(w, FALSE)
    /\ canWorkerAcceptTask(v, TRUE)

\* C26: every result a run of either path returns has allocated + failed
\* equal to the number of tasks of its batch, each task counted once:
\* allocated counts the tasks the run assigned and failed the others.
C26_CountsAddUp ==
  \A r \in Runs : run[r].pc = "done" =>
    /\ run[r].allocated + run[r].failed = Len(run[r].tasks)
    /\ run[r].kind = "opt" =>
         run[r].allocated = Cardinality(CommittedTasks(r))
    /\ run[r].kind = "legacy" /\ run[r].allocated > 0 =>
         run[r].picked = Range(run[r].tasks) /\ run[r].pending = {}

\* a run of each path has returned a result for a batch of two tasks, one
\* of them counted as failed
C26_BothPathsCountedTwo ==
  /\ run["r1"].kind = "opt" /\ run["r2"].kind = "legacy"
  /\ \A r \in Runs :
       /\ run[r].pc = "done" /\ Len(run[r].tasks) = 2
       /\ run[r].allocated = 1 /\ run[r].failed = 1


\* C27: a worker action changes a task only while the task is assigned to
\* the calling worker: whenever the update of acceptTask, rejectTask,
\* completeTask or acceptRejectedTask by worker W writes, the task's
\* assignedUserId is W at that moment, whatever reallocateTask or
\* manuallyAssignTask did in between.
C27_WorkerWritesOwnTaskOnly ==
  [][\A c \in Clients :
       (/\ client[c].pc = "write"
        /\ client[c].op \in {"acceptTask", "rejectTask", "completeTask",
                             "acceptRejectedTask"}
        /\ client'[c].pc = "idle")
       => taskWorker[client[c].task] = client[c].worker]_vars


\* C28: when updateWorkerTaskSummaryCache or updateWorkerTaskSummaryCacheBulk
\* applies a delta to an existing cached summary, the summary written back
\* has total equal to the sum of its status counts (unassigned + assigned +
\* accepted + completed + rejected, of which only assigned is not 0 here).
C28_TotalIsSumOfCounts ==
  [][\A w \in SummaryWorkers :
       (/\ cache'.ops # cache.ops /\ cache'.method \in SummaryMethods
        /\ cache'.worker = w
        /\ cache.summary[w].kind = "json"
        /\ cache'.summary[w].kind = "json")
       => cache'.summary[w].total = cache'.summary[w].assigned]_vars


\* C29: a failed call while the breaker is HALF_OPEN returns it to OPEN, and
\* after such a failure no wrapped call invokes the cache operation until
\* more than recoveryTimeout has passed since that failure.
C29_HalfOpenFailureReopens ==
  [][LET cb == circuitBreaker
         event == calls'.event
     IN calls' # calls /\ cb.state = "HALF_OPEN"
          => /\ event = "failure" => circuitBreaker'.state = "OPEN"
             /\ event = "invoked"
                  => now - cb.lastFailure > recoveryTimeout]_vars

============================================================================
